---- MODULE Spec2Model ----
(***************************************************************************)
(* Model of rspotify's automatic pagination (endpoints/pagination/         *)
(* stream.rs, `paginate`) and of the ureq transport (http/ureq.rs,         *)
(* `UreqClient::request` and the five verbs of `BaseHttpClient`).          *)
(*                                                                         *)
(* Pagination: one stream returned by `paginate`, its consumer, and the    *)
(* page-fetch function `req` it was given.  The collection behind `req`    *)
(* holds the items 1..total; the item at offset o is the number o + 1.     *)
(***************************************************************************)
EXTENDS Integers, Sequences, FiniteSets, TLC

\* ------------------------------------------------------------------ bounds
MaxItems == 3
MaxPageSize == 2
MaxFetches == 4

VARIABLES
    total,      \* number of items the collection behind `req` holds
    page_size,  \* `page_size` argument of paginate
    offset,     \* `let mut offset` of paginate
    pc,         \* where the generator of stream! is suspended
    buf,        \* items of `page.items` the `for` loop has not yielded yet
    pageNext,   \* `page.next.is_some()` of the page being iterated
    pulling,    \* the consumer's poll_next returned Pending: a pull is pending
    dropped,    \* the consumer has discarded the stream
    inflight,   \* indexes (in fetchLog) of the req futures the generator holds
    fetchLog,   \* every call req(page_size, offset), in order
    responses,  \* every outcome a req future resolved to, in order
    emitted     \* every element the consumer received, in order

pvars == <<total, page_size, offset, pc, buf, pageNext, pulling, dropped,
           inflight, fetchLog, responses, emitted>>

VARIABLES
    hpc,        \* where the call of a verb of UreqClient stands
    call,       \* the verb called and its arguments (headers, payload)
    request,    \* `mut request` of UreqClient::request
    todo,       \* keys of `headers` the `for` loop has not set yet
    sendLog,    \* every invocation of send_request: the request it was given
                \* and the request it put on the wire
    outcome,    \* what send_request returned
    result      \* the ClientResult<String> the verb returned

hvars == <<hpc, call, request, todo, sendLog, outcome, result>>

VARIABLES
    second      \* a second stream made by another call of paginate with the
                \* same req: its own offset, position, page and history

qvars == <<second>>

Min(a, b) == IF a <= b THEN a ELSE b
Max(a, b) == IF a >= b THEN a ELSE b

\* ------------------------------------------------- the page-fetch function
\* The items at offsets [off, off + k) of the collection.
Slice(off, k) == [i \in 1..k |-> off + i]

\* Page<T>: `items` and `next`; the Err arm of ClientResult carries `err`.
OkPage(items, nx) == [ok |-> TRUE, items |-> items, next |-> nx, err |-> 0]
Failure(e) == [ok |-> FALSE, items |-> <<>>, next |-> FALSE, err |-> e]

Errors == {-1}

\* What req(limit, offset) may resolve to: a failure, or a page of at most
\* `limit` items starting at `offset`, with or without a next marker.  `more`
\* is whether the source may still announce a further page.
SourceOutcomes(rq, more) ==
    {Failure(e) : e \in Errors}
    \cup {OkPage(Slice(rq.offset, k), nx) :
            k \in 0..Min(rq.limit, Max(0, total - rq.offset)),
            nx \in IF more THEN BOOLEAN ELSE {FALSE}}

\* --------------------------------------------------- http/ureq.rs: data
Verbs == {"get", "post", "post_form", "put", "delete"}

HeaderNames == {"Authorization", "Content-Type"}
HeaderValues == {"Bearer t", "application/json"}
EmptyMap == [n \in {} |-> ""]

\* The HashMaps a caller can pass as Headers, Query or Form.
Maps(keys, values) == UNION {[ks -> values] : ks \in SUBSET keys}

\* headers: Option<&Headers>
NoHeaders == [some |-> FALSE, map |-> EmptyMap]
SomeHeaders(m) == [some |-> TRUE, map |-> m]
HeaderArgs == {NoHeaders} \cup {SomeHeaders(m) : m \in Maps(HeaderNames, HeaderValues)}

Queries == Maps({"limit", "offset"}, {"20"})
Forms == Maps({"grant_type", "code"}, {"c"})
JsonValues == {"{}", "{\"uris\":[]}"}

PayloadsOf(verb) ==
    CASE verb = "get" -> Queries
      [] verb = "post_form" -> Forms
      [] OTHER -> JsonValues

NoBody == [kind |-> "none", json |-> "", pairs |-> {}]
NoRequest == [method |-> "", headers |-> EmptyMap, query |-> {}, body |-> NoBody]
NoCall == [verb |-> "", headers |-> NoHeaders, payload |-> ""]
NoOutcome == [kind |-> "none", status |-> 0, status_text |-> "", body |-> "",
              readable |-> TRUE, err |-> ""]
NoResult == [tag |-> "none", code |-> 0, msg |-> ""]

\* What send_request can return.  Ok(response): a 2xx response, whose body
\* into_string can read or not.  Err(ureq::Error::Status(code, response)).
\* Err(ureq::Error::Transport(..)): no status line was obtained.
StatusLines == {[code |-> 404, text |-> "Not Found"],
                [code |-> 500, text |-> "Internal Server Error"]}
Bodies == {"not found", "{\"items\":[]}"}
TransportFailures == {"Dns: failed to lookup address",
                      "ConnectionFailed: connection refused",
                      "Io: timed out",
                      "Tls: invalid certificate"}
ReadFailures == {"stream did not contain valid UTF-8"}

SendOutcomes ==
    {[kind |-> "ok", status |-> 200, status_text |-> "OK", body |-> b,
      readable |-> TRUE, err |-> ""] : b \in Bodies}
    \cup {[kind |-> "ok", status |-> 200, status_text |-> "OK", body |-> "",
           readable |-> FALSE, err |-> e] : e \in ReadFailures}
    \cup {[kind |-> "status", status |-> l.code, status_text |-> l.text,
           body |-> b, readable |-> TRUE, err |-> ""] :
             l \in StatusLines, b \in Bodies}
    \cup {[kind |-> "transport", status |-> 0, status_text |-> "", body |-> "",
           readable |-> TRUE, err |-> e] : e \in TransportFailures}

\* ------------------------------------------------ http/ureq.rs: functions
MethodOfDeleteAsPost(verb) ==
    CASE verb = "get" -> "GET"
      [] verb = "put" -> "PUT"
      [] OTHER -> "POST"
\* ureq::get(url) / post(url) / put(url) / delete(url)
MethodOf(verb) ==
    CASE verb = "get" -> "GET"
      [] verb = "post" -> "POST"
      [] verb = "post_form" -> "POST"
      [] verb = "put" -> "PUT"
      [] verb = "delete" -> "DELETE"

NewRequest(verb) ==
    [method |-> MethodOf(verb), headers |-> EmptyMap, query |-> {},
     body |-> NoBody]

RequestSetNothing(req, key, val) == req
\* request = request.set(&key, &val)
RequestSet(req, key, val) ==
    [req EXCEPT !.headers =
        [n \in DOMAIN @ \cup {key} |-> IF n = key THEN val ELSE @[n]]]

\* for (key, val) in payload.iter() { req = req.query(&key, &val) }
AttachQuery(req, payload) ==
    [req EXCEPT !.query = @ \cup {<<k, payload[k]>> : k \in DOMAIN payload}]

\* req.send_json(payload.clone())
SendJson(req, payload) ==
    [req EXCEPT !.body = [kind |-> "json", json |-> payload, pairs |-> {}]]

\* req.send_form(&payload), payload collected from the Form's pairs
SendForm(req, payload) ==
    [req EXCEPT !.body = [kind |-> "form", json |-> "",
                          pairs |-> {<<k, payload[k]>> : k \in DOMAIN payload}]]

\* The `sender` closure of each verb: the request as it goes on the wire.
Sender(verb, req, payload) ==
    CASE verb = "get" -> AttachQuery(req, payload)
      [] verb = "post_form" -> SendForm(req, payload)
      [] OTHER -> SendJson(req, payload)

FromResponseBody(r) == [tag |-> "StatusCode", code |-> r.status, msg |-> r.body]
\* ClientError::StatusCode(r.status(), r.status_text().to_string())
FromResponse(r) ==
    [tag |-> "StatusCode", code |-> r.status, msg |-> r.status_text]

\* err.to_string() of a transport error
to_string(e) == "transport error: " \o e

\* ClientError::Request(err.to_string())
RequestError(e) == [tag |-> "Request", code |-> 0, msg |-> to_string(e)]

\* map_err(Into::into) on the std::io::Error of into_string
FromIoError(e) == [tag |-> "BodyError", code |-> 0, msg |-> e]

OkBody(b) == [tag |-> "Ok", code |-> 0, msg |-> b]

MapOutcomeBodyLost(o) ==
    CASE o.kind = "ok" -> OkBody(o.body)
      [] o.kind = "status" -> FromResponse(o)
      [] OTHER -> RequestError(o.err)
MapOutcomeTransportAsStatus(o) ==
    CASE o.kind = "ok" ->
            IF o.readable THEN OkBody(o.body) ELSE FromIoError(o.err)
      [] OTHER -> FromResponse(o)
\* match send_request(request) { Ok(..) => .., Err(Status(..)) => .., Err(err) => .. }
MapOutcome(o) ==
    CASE o.kind = "ok" ->
            IF o.readable THEN OkBody(o.body) ELSE FromIoError(o.err)
      [] o.kind = "status" -> FromResponse(o)
      [] OTHER -> RequestError(o.err)

HttpIdle ==
    /\ hpc = "idle"
    /\ call = NoCall
    /\ request = NoRequest
    /\ todo = {}
    /\ sendLog = <<>>
    /\ outcome = NoOutcome
    /\ result = NoResult

\* ------------------------------------------------------------- paginate
InitialOffset == 0

\* req(page_size, offset)
FetchRequest(ps, off) == [limit |-> ps, offset |-> off]

AdvanceOffsetByPageSize(off, items) == off + page_size
AdvanceOffsetStuck(off, items) == off
\* offset += page.items.len() as u32
AdvanceOffset(off, items) == off + Len(items)

ContinueAlways(nx) == TRUE
ContinueInverted(nx) == ~nx
\* if page.next.is_none() { break; }
Continue(nx) == nx

\* yield Ok(item)  /  the Err the `?` yields
YieldOk(item) == [tag |-> "Ok", val |-> item]
YieldErr(e) == [tag |-> "Err", val |-> e]

ReleaseLeak(infl) == infl
\* Dropping the boxed stream drops the generator and the future it awaits.
ReleaseInFlight(infl) == {}

\* The generator reaches `req(page_size, offset).await` and the future is
\* pending: poll_next returns Pending.
IssueFetch ==
    /\ fetchLog' = Append(fetchLog, FetchRequest(page_size, offset))
    /\ inflight' = inflight \cup {Len(fetchLog) + 1}
    /\ pc' = "await"
    /\ pulling' = TRUE

\* The generator returns: poll_next returns Ready(None).
Finish ==
    /\ pc' = "done"
    /\ pulling' = FALSE

\* The state of a stream as paginate returns it: `let mut offset = 0` and the
\* stream! body not started.
NewStream ==
    [offset |-> InitialOffset, pc |-> "start", buf |-> <<>>,
     pageNext |-> FALSE, pulling |-> FALSE, fetchLog |-> <<>>,
     responses |-> <<>>, emitted |-> <<>>]

InitEager ==
    /\ total \in 0..MaxItems
    /\ page_size \in 1..MaxPageSize
    /\ HttpIdle
    /\ second = NewStream
    /\ offset = InitialOffset
    /\ pc = "await"
    /\ buf = <<>>
    /\ pageNext = FALSE
    /\ pulling = FALSE
    /\ dropped = FALSE
    /\ inflight = {1}
    /\ fetchLog = <<FetchRequest(page_size, InitialOffset)>>
    /\ responses = <<>>
    /\ emitted = <<>>

\* paginate(req, page_size): the stream is built, nothing of its body has run.
Init ==
    /\ total \in 0..MaxItems
    /\ page_size \in 1..MaxPageSize
    /\ HttpIdle
    /\ second = NewStream
    /\ offset = InitialOffset
    /\ pc = "start"
    /\ buf = <<>>
    /\ pageNext = FALSE
    /\ pulling = FALSE
    /\ dropped = FALSE
    /\ inflight = {}
    /\ fetchLog = <<>>
    /\ responses = <<>>
    /\ emitted = <<>>

\* The consumer asks for the next element (poll_next) while no pull is pending:
\* the generator resumes from where it is suspended.
Pull ==
    /\ ~dropped
    /\ ~pulling
    /\ \/ /\ pc = "start"
          /\ IssueFetch
          /\ UNCHANGED <<offset, buf, pageNext, emitted>>
       \/ /\ pc = "yield"
          /\ buf # <<>>
          /\ emitted' = Append(emitted, YieldOk(Head(buf)))
          /\ buf' = Tail(buf)
          /\ UNCHANGED <<offset, pc, pageNext, pulling, inflight, fetchLog>>
       \/ /\ pc = "yield"
          /\ buf = <<>>
          /\ IF Continue(pageNext)
             THEN IssueFetch
             ELSE Finish /\ UNCHANGED <<inflight, fetchLog>>
          /\ UNCHANGED <<offset, buf, pageNext, emitted>>
       \/ /\ pc = "failed"
          /\ Finish
          /\ UNCHANGED <<offset, buf, pageNext, emitted, inflight, fetchLog>>
    /\ Len(fetchLog') <= MaxFetches
    /\ UNCHANGED <<total, page_size, dropped, responses>>
    /\ UNCHANGED hvars
    /\ UNCHANGED qvars

\* The awaited req future resolves to r and the pending poll_next goes on.
FetchComplete(r) ==
    /\ pc = "await"
    /\ inflight # {}
    /\ responses' = Append(responses, r)
    /\ IF ~r.ok
       THEN \* `?`: yield Err(e), then return on the next poll
            /\ emitted' = Append(emitted, YieldErr(r.err))
            /\ pc' = "failed"
            /\ pulling' = FALSE
            /\ inflight' = inflight \ {Len(fetchLog)}
            /\ UNCHANGED <<offset, buf, pageNext, fetchLog>>
       ELSE /\ offset' = AdvanceOffset(offset, r.items)
            /\ pageNext' = r.next
            /\ IF r.items # <<>>
               THEN /\ emitted' = Append(emitted, YieldOk(Head(r.items)))
                    /\ buf' = Tail(r.items)
                    /\ pc' = "yield"
                    /\ pulling' = FALSE
                    /\ inflight' = inflight \ {Len(fetchLog)}
                    /\ UNCHANGED fetchLog
               ELSE /\ buf' = <<>>
                    /\ UNCHANGED emitted
                    /\ IF Continue(r.next)
                       THEN /\ fetchLog' = Append(fetchLog,
                                   FetchRequest(page_size, offset'))
                            /\ inflight' = (inflight \ {Len(fetchLog)})
                                              \cup {Len(fetchLog) + 1}
                            /\ pc' = "await"
                            /\ pulling' = TRUE
                       ELSE /\ Finish
                            /\ inflight' = inflight \ {Len(fetchLog)}
                            /\ UNCHANGED fetchLog
    /\ Len(fetchLog') <= MaxFetches
    /\ UNCHANGED <<total, page_size, dropped>>
    /\ UNCHANGED hvars
    /\ UNCHANGED qvars

\* The req future in flight resolves to one of the source's outcomes.
Fetch ==
    /\ inflight # {}
    /\ \E r \in SourceOutcomes(fetchLog[Len(fetchLog)],
                               Len(fetchLog) < MaxFetches) :
          FetchComplete(r)

\* The consumer polls again while the req future is still pending: the
\* generator polls the future it already holds.
ReawaitCallsAgain(log, rq) == Append(log, rq)
Reawait(log, rq) == log

Repoll ==
    /\ ~dropped
    /\ pc = "await"
    /\ pulling
    /\ inflight # {}
    /\ fetchLog' = Reawait(fetchLog, FetchRequest(page_size, offset))
    /\ inflight' = inflight \cup ((Len(fetchLog) + 1)..Len(fetchLog'))
    /\ Len(fetchLog') <= MaxFetches
    /\ UNCHANGED <<total, page_size, offset, pc, buf, pageNext, pulling,
                   dropped, responses, emitted>>
    /\ UNCHANGED hvars
    /\ UNCHANGED qvars

\* The consumer discards the stream.
Drop ==
    /\ ~dropped
    /\ pc # "done"
    /\ dropped' = TRUE
    /\ pulling' = FALSE
    /\ inflight' = ReleaseInFlight(inflight)
    /\ UNCHANGED <<total, page_size, offset, pc, buf, pageNext, fetchLog,
                   responses, emitted>>
    /\ UNCHANGED hvars
    /\ UNCHANGED qvars

vars == <<pvars, hvars, qvars>>

Next == Pull \/ Fetch \/ Repoll \/ Drop

Spec == Init /\ [][Next]_vars

\* A consumer that keeps pulling and never discards the stream, with every
\* req future resolving: the poll that is due happens, the fetch in flight
\* completes.
NextLive == Pull \/ Fetch \/ Repoll

SpecLive == Init /\ [][NextLive]_vars /\ WF_vars(Pull) /\ WF_vars(Fetch)

\* ------------------------------------------- two streams of the same req
SecondOffsetShared(s) == offset
\* Each call of paginate has its own `let mut offset`, moved into its stream.
SecondOffset(s) == s.offset

\* req(page_size, offset).await of the second stream
SecondIssue(s) ==
    [s EXCEPT !.fetchLog = Append(@, FetchRequest(page_size, SecondOffset(s))),
              !.pc = "await",
              !.pulling = TRUE]

SecondFinish(s) == [s EXCEPT !.pc = "done", !.pulling = FALSE]

\* The stream! body of the second stream resumed by poll_next.
SecondPull(s) ==
    CASE s.pc = "start" -> SecondIssue(s)
      [] s.pc = "yield" /\ s.buf # <<>> ->
            [s EXCEPT !.emitted = Append(@, YieldOk(Head(s.buf))),
                      !.buf = Tail(@)]
      [] s.pc = "yield" /\ s.buf = <<>> ->
            IF Continue(s.pageNext) THEN SecondIssue(s) ELSE SecondFinish(s)
      [] OTHER -> SecondFinish(s)

\* The stream! body of the second stream after its req future resolved to r.
SecondResolve(s, r) ==
    IF ~r.ok
    THEN [s EXCEPT !.responses = Append(@, r),
                   !.emitted = Append(@, YieldErr(r.err)),
                   !.pc = "failed",
                   !.pulling = FALSE]
    ELSE LET t == [s EXCEPT !.responses = Append(@, r),
                            !.offset = AdvanceOffset(SecondOffset(s), r.items),
                            !.pageNext = r.next]
         IN  IF r.items # <<>>
             THEN [t EXCEPT !.emitted = Append(@, YieldOk(Head(r.items))),
                            !.buf = Tail(r.items),
                            !.pc = "yield",
                            !.pulling = FALSE]
             ELSE IF Continue(r.next) THEN SecondIssue(t) ELSE SecondFinish(t)

PullSecond ==
    /\ ~second.pulling
    /\ second.pc \in {"start", "yield", "failed"}
    /\ second' = SecondPull(second)
    /\ Len(second'.fetchLog) <= MaxFetches
    /\ UNCHANGED pvars
    /\ UNCHANGED hvars

FetchSecond ==
    /\ second.pc = "await"
    /\ \E r \in SourceOutcomes(second.fetchLog[Len(second.fetchLog)],
                               Len(second.fetchLog) < MaxFetches) :
          second' = SecondResolve(second, r)
    /\ Len(second'.fetchLog) <= MaxFetches
    /\ UNCHANGED pvars
    /\ UNCHANGED hvars

NextTwo == Pull \/ Fetch \/ PullSecond \/ FetchSecond

SpecTwo == Init /\ [][NextTwo]_vars

\* ---------------------------------------------------------- http/ureq.rs
\* get / post / post_form / put / delete: the verb builds its request and its
\* sender and enters UreqClient::request.
Call(verb, headers, payload) ==
    /\ hpc = "idle"
    /\ call' = [verb |-> verb, headers |-> headers, payload |-> payload]
    /\ request' = NewRequest(verb)
    /\ todo' = IF headers.some THEN DOMAIN headers.map ELSE {}
    /\ hpc' = "headers"
    /\ UNCHANGED <<sendLog, outcome, result>>
    /\ UNCHANGED pvars
    /\ UNCHANGED qvars

\* One turn of `for (key, val) in headers.iter()`.
SetHeader(key) ==
    /\ hpc = "headers"
    /\ key \in todo
    /\ request' = RequestSet(request, key, call.headers.map[key])
    /\ todo' = todo \ {key}
    /\ UNCHANGED <<hpc, call, sendLog, outcome, result>>
    /\ UNCHANGED pvars
    /\ UNCHANGED qvars

\* send_request(request): the loop is over, the sender attaches the payload
\* and performs the request.
Send ==
    /\ hpc = "headers"
    /\ todo = {}
    /\ sendLog' = Append(sendLog,
                         [given |-> request,
                          wire |-> Sender(call.verb, request, call.payload)])
    /\ hpc' = "sent"
    /\ UNCHANGED <<call, request, todo, outcome, result>>
    /\ UNCHANGED pvars
    /\ UNCHANGED qvars

RespondRetry(o) ==
    /\ hpc = "sent"
    /\ outcome' = o
    /\ IF o.kind = "transport" /\ Len(sendLog) < 2
       THEN hpc' = "headers" /\ UNCHANGED result
       ELSE hpc' = "done" /\ result' = MapOutcome(o)
    /\ UNCHANGED <<call, request, todo, sendLog>>
    /\ UNCHANGED pvars
    /\ UNCHANGED qvars

\* send_request returns o and the match maps it to the result of the call.
Respond(o) ==
    /\ hpc = "sent"
    /\ outcome' = o
    /\ result' = MapOutcome(o)
    /\ hpc' = "done"
    /\ UNCHANGED <<call, request, todo, sendLog>>
    /\ UNCHANGED pvars
    /\ UNCHANGED qvars

InitHttp ==
    /\ total = 0
    /\ page_size = 1
    /\ HttpIdle
    /\ second = NewStream
    /\ offset = InitialOffset
    /\ pc = "start"
    /\ buf = <<>>
    /\ pageNext = FALSE
    /\ pulling = FALSE
    /\ dropped = FALSE
    /\ inflight = {}
    /\ fetchLog = <<>>
    /\ responses = <<>>
    /\ emitted = <<>>

CallVerb ==
    \E verb \in Verbs, headers \in HeaderArgs :
        \E payload \in PayloadsOf(verb) : Call(verb, headers, payload)

SetNextHeader == \E key \in HeaderNames : SetHeader(key)

Receive == \E o \in SendOutcomes : Respond(o)

NextHttp == CallVerb \/ SetNextHeader \/ Send \/ Receive

SpecHttp == InitHttp /\ [][NextHttp]_vars

\* ------------------------------------------------ pagination: properties
CeilDiv(n, d) == (n + d - 1) \div d

\* Number of items the first k resolved fetches delivered.
RECURSIVE Received(_)
Received(k) == IF k = 0 THEN 0 ELSE Received(k - 1) + Len(responses[k].items)

\* Concatenation, in fetch order, of the item lists of the first k pages.
RECURSIVE PagesConcat(_)
PagesConcat(k) ==
    IF k = 0 THEN <<>> ELSE PagesConcat(k - 1) \o responses[k].items

OkSeq(items) == [i \in 1..Len(items) |-> YieldOk(items[i])]

\* The answer of a source that serves its `total` items in pages of `limit`
\* and sets the next marker exactly while items remain after the page.
ServedPage(rq) ==
    LET k == Min(rq.limit, Max(0, total - rq.offset))
    IN  OkPage(Slice(rq.offset, k), rq.offset + k < total)

AllServed == \A k \in 1..Len(responses) : responses[k] = ServedPage(fetchLog[k])

Exhausted == pc = "done"

\* C1 as stated: pulled to exhaustion, a source of N items served in pages of
\* P causes exactly ceil(N / P) fetches and the consumer receives exactly the
\* N items in order, for every N >= 0.
C1_CeilFetches ==
    (Exhausted /\ AllServed) =>
        /\ Len(fetchLog) = CeilDiv(total, page_size)
        /\ emitted = OkSeq(Slice(0, total))

\* C1 amended: the number of fetches is max(1, ceil(N / P)): the first page
\* is always fetched, also when the source holds no item; the N items are
\* received in order.
C1_CeilFetchesAtLeastOne ==
    (Exhausted /\ AllServed) =>
        /\ Len(fetchLog) = Max(1, CeilDiv(total, page_size))
        /\ emitted = OkSeq(Slice(0, total))

C1_Witness ==
    /\ Exhausted /\ AllServed
    /\ total = 3 /\ page_size = 2
    /\ Len(fetchLog) = 2
    /\ Len(emitted) = 3

\* C2: once a fetch at offset O has failed, the consumer has received exactly
\* the items at offsets [0, O) followed by one error element, that fetch is
\* the last one ever issued (no retry, no further fetch), and the stream is
\* suspended after the error or has ended.
C2_FailureIsTerminal ==
    \A k \in 1..Len(responses) :
        ~responses[k].ok =>
            /\ k = Len(responses)
            /\ Len(fetchLog) = k
            /\ inflight = {}
            /\ pc \in {"failed", "done"}
            /\ emitted = OkSeq(Slice(0, fetchLog[k].offset))
                            \o <<YieldErr(responses[k].err)>>

C2_Witness ==
    /\ Exhausted
    /\ Len(responses) = 2
    /\ ~responses[2].ok
    /\ fetchLog[2].offset = 1
    /\ Len(emitted) = 2

\* C3: the first fetch is at offset 0, every fetch asks for page_size items,
\* the k-th fetch is at the count of items of the k-1 pages before it, and a
\* source answering {[a, b], next} then {[], no next} yields [a, b] with
\* fetches at offsets 0 and 2 only.
C3_OffsetIsItemsReceived ==
    /\ \A k \in 1..Len(fetchLog) :
          /\ fetchLog[k].limit = page_size
          /\ fetchLog[k].offset = Received(k - 1)
    /\ (Len(responses) = 2
        /\ responses[1] = OkPage(<<1, 2>>, TRUE)
        /\ responses[2] = OkPage(<<>>, FALSE)) =>
            /\ Exhausted
            /\ emitted = <<YieldOk(1), YieldOk(2)>>
            /\ fetchLog = <<FetchRequest(page_size, 0), FetchRequest(page_size, 2)>>

C3_Witness ==
    /\ Len(responses) = 2
    /\ responses[1] = OkPage(<<1, 2>>, TRUE)
    /\ responses[2] = OkPage(<<>>, FALSE)
    /\ Exhausted

C3_WitnessShortPage ==
    /\ page_size = 2
    /\ Len(fetchLog) = 3
    /\ fetchLog[2].offset = 1
    /\ fetchLog[3].offset = 2

\* The page received last has fewer than page_size items and no next marker.
LastPageShort ==
    /\ responses # <<>>
    /\ responses[Len(responses)].ok
    /\ ~responses[Len(responses)].next
    /\ Len(responses[Len(responses)].items) < page_size

\* C4: a page with fewer than page_size items and no next marker is the last
\* one: no fetch follows it, no fetch is ever issued beyond offset N, and
\* once its items are emitted the next pull reports the end of the sequence
\* without fetching.
C4_ShortLastPageEnds ==
    /\ [](/\ \A k \in 1..Len(responses) :
               (/\ responses[k].ok
                /\ ~responses[k].next
                /\ Len(responses[k].items) < page_size) =>
                    /\ k = Len(responses)
                    /\ Len(fetchLog) = k
                    /\ inflight = {}
          /\ \A k \in 1..Len(fetchLog) : fetchLog[k].offset <= total)
    /\ [][(LastPageShort /\ pc = "yield" /\ buf = <<>> /\ ~dropped') =>
            /\ pc' = "done"
            /\ emitted' = emitted
            /\ emitted = OkSeq(PagesConcat(Len(responses)))
            /\ fetchLog' = fetchLog]_vars

C4_Witness ==
    /\ LastPageShort
    /\ Exhausted
    /\ page_size = 2
    /\ Len(responses) = 2
    /\ Len(responses[2].items) = 1
    /\ Len(emitted) = 3

\* Number of resolved fetches needed to supply n elements: the least k whose
\* first k outcomes carry n elements (a failure carries its one error).
RECURSIVE Supplied(_)
Supplied(k) ==
    IF k = 0 THEN 0
    ELSE Supplied(k - 1)
         + (IF responses[k].ok THEN Len(responses[k].items) ELSE 1)

MinFetches(n) ==
    CHOOSE k \in 0..Len(responses) :
        /\ Supplied(k) >= n
        /\ \A j \in 0..(k - 1) : Supplied(j) < n

\* C5: paginate itself fetches nothing, a fetch is in flight only while a
\* pull of the consumer is pending, and when the consumer has just received
\* its n-th element the fetches issued so far are the least number that
\* supplies n elements.
C5_Lazy ==
    /\ pc = "start" => fetchLog = <<>>
    /\ inflight # {} => pulling
    /\ (pc \in {"yield", "failed"}) =>
          /\ Supplied(Len(responses)) >= Len(emitted)
          /\ Len(fetchLog) = MinFetches(Len(emitted))

C5_Witness ==
    /\ pc = "yield"
    /\ buf = <<>>
    /\ pageNext
    /\ ~dropped
    /\ Len(emitted) = 2
    /\ Len(fetchLog) = 1

\* C6 as stated: each fetch of a stream is at a strictly greater offset than
\* the fetch before it, for every source.
C6_StrictlyIncreasing ==
    \A k \in 2..Len(fetchLog) : fetchLog[k].offset > fetchLog[k - 1].offset

\* C6 amended: offsets never decrease; a fetch is at a strictly greater
\* offset than the one before it exactly when the page received in between
\* held at least one item, and at the same offset when that page was empty
\* with its next marker present.
C6_NonDecreasing ==
    \A k \in 2..Len(fetchLog) :
        /\ fetchLog[k].offset >= fetchLog[k - 1].offset
        /\ responses[k - 1].ok /\ responses[k - 1].next
        /\ (responses[k - 1].items # <<>>) <=>
               (fetchLog[k].offset > fetchLog[k - 1].offset)

C6_Witness ==
    /\ Len(fetchLog) = 3
    /\ fetchLog[2].offset > fetchLog[1].offset
    /\ fetchLog[3].offset = fetchLog[2].offset

\* C10: once the consumer has discarded the stream, no request is left in
\* flight and no fetch is issued any more.
C10_NoFetchAfterDrop ==
    /\ [](dropped => inflight = {})
    /\ [][dropped => fetchLog' = fetchLog]_vars

C10_Witness ==
    /\ dropped
    /\ pc = "yield"
    /\ buf = <<>>
    /\ pageNext
    /\ Len(fetchLog) = 1

\* ------------------------------------------------- transport: properties
Returned == hpc = "done"

\* C7 as stated: a non-2xx response with status code c yields
\* StatusError{c, message} whose message is the text of the response body
\* (404 with body "not found" gives StatusError{404, "not found"}), and no
\* body is returned.
C7_StatusErrorCarriesBody ==
    (Returned /\ outcome.kind = "status") =>
        result = [tag |-> "StatusCode", code |-> outcome.status,
                  msg |-> outcome.body]

\* C7 amended: a non-2xx response with status code c yields
\* StatusError{c, message} whose message is the status text of the response's
\* status line, not its body (404 "Not Found" with body "not found" gives
\* StatusError{404, "Not Found"}), and no body is returned.
C7_StatusErrorCarriesStatusText ==
    (Returned /\ outcome.kind = "status") =>
        /\ result = [tag |-> "StatusCode", code |-> outcome.status,
                     msg |-> outcome.status_text]
        /\ result.tag # "Ok"
        /\ (outcome.status = 404 /\ outcome.body = "not found") =>
              result = [tag |-> "StatusCode", code |-> 404, msg |-> "Not Found"]

C7_Witness ==
    /\ Returned
    /\ outcome.kind = "status"
    /\ outcome.status = 404
    /\ outcome.body = "not found"
    /\ result.msg = "Not Found"

\* C8: for every verb, a send that fails before a status line is obtained
\* yields the transport error carrying the failure's message, never a status
\* error and never a body.
C8_TransportError ==
    (Returned /\ outcome.kind = "transport") =>
        /\ call.verb \in Verbs
        /\ result.tag = "Request"
        /\ result.msg = to_string(outcome.err)
        /\ result.tag \notin {"StatusCode", "Ok"}

C8_Witness ==
    /\ Returned
    /\ call.verb = "post_form"
    /\ outcome.kind = "transport"
    /\ outcome.err = "Io: timed out"
    /\ result.tag = "Request"

\* C9: for every verb, when the send step runs the request it is given
\* carries every header of the caller with its exact name and value, and no
\* query, JSON or form payload has been attached yet; the headers are still
\* there on the request that goes out.
C9_HeadersBeforeSend ==
    \A i \in 1..Len(sendLog) :
        /\ call.headers.some =>
              \A k \in DOMAIN call.headers.map :
                  /\ k \in DOMAIN sendLog[i].given.headers
                  /\ sendLog[i].given.headers[k] = call.headers.map[k]
                  /\ k \in DOMAIN sendLog[i].wire.headers
                  /\ sendLog[i].wire.headers[k] = call.headers.map[k]
        /\ sendLog[i].given.query = {}
        /\ sendLog[i].given.body = NoBody

C9_Witness ==
    /\ Len(sendLog) = 1
    /\ call.verb = "delete"
    /\ call.headers.some
    /\ DOMAIN call.headers.map = HeaderNames
    /\ sendLog[1].given.headers = call.headers.map
    /\ sendLog[1].wire.body.kind = "json"

\* C12: the transport never retries: every call of a verb invokes its send
\* step exactly once, whatever the outcome, and a failure is returned at once
\* as one error value.
C12_SendsOnce ==
    /\ hpc \in {"idle", "headers"} => sendLog = <<>>
    /\ hpc \in {"sent", "done"} => Len(sendLog) = 1
    /\ (Returned /\ (outcome.kind # "ok" \/ ~outcome.readable)) =>
          result.tag \in {"StatusCode", "Request", "BodyError"}
    /\ hpc = "done" <=> result # NoResult
    /\ hpc = "done" <=> outcome # NoOutcome

C12_Witness ==
    /\ Returned
    /\ call.verb = "put"
    /\ outcome.kind = "transport"
    /\ Len(sendLog) = 1
    /\ result.tag = "Request"

\* C14: a 2xx response whose body cannot be read as text yields a BodyError
\* carrying the read failure's message, not a status or transport error; a
\* 2xx response whose body is readable yields Ok with exactly that body.
C14_BodyErrorOrBody ==
    (Returned /\ outcome.kind = "ok") =>
        IF outcome.readable
        THEN result = [tag |-> "Ok", code |-> 0, msg |-> outcome.body]
        ELSE /\ result.tag = "BodyError"
             /\ result.msg = outcome.err
             /\ result.tag \notin {"StatusCode", "Request", "Ok"}

C14_Witness ==
    /\ Returned
    /\ outcome.kind = "ok"
    /\ ~outcome.readable
    /\ result.tag = "BodyError"
    /\ result.msg = "stream did not contain valid UTF-8"

C14_WitnessReadable ==
    /\ Returned
    /\ outcome.kind = "ok"
    /\ outcome.readable
    /\ result.msg = "{\"items\":[]}"

\* The pairs of a Query or Form map.
PairsOf(m) == {<<k, m[k]>> : k \in DOMAIN m}

\* C16: every verb sends through the shared request routine with its own
\* method and payload kind: get sends GET with every query pair as a URL
\* query parameter and no body, post sends POST with the JSON body,
\* post_form sends POST with the form pairs, put sends PUT with the JSON
\* body, delete sends DELETE with the JSON body; the payload sent is the
\* payload the caller gave.
C16_VerbDispatch ==
    \A i \in 1..Len(sendLog) :
        LET w == sendLog[i].wire
            v == call.verb
        IN  /\ v = "get" =>
                  /\ w.method = "GET"
                  /\ w.query = PairsOf(call.payload)
                  /\ w.body.kind = "none"
            /\ v = "post" =>
                  /\ w.method = "POST"
                  /\ w.body = [kind |-> "json", json |-> call.payload, pairs |-> {}]
                  /\ w.query = {}
            /\ v = "post_form" =>
                  /\ w.method = "POST"
                  /\ w.body = [kind |-> "form", json |-> "",
                               pairs |-> PairsOf(call.payload)]
                  /\ w.query = {}
            /\ v = "put" =>
                  /\ w.method = "PUT"
                  /\ w.body = [kind |-> "json", json |-> call.payload, pairs |-> {}]
                  /\ w.query = {}
            /\ v = "delete" =>
                  /\ w.method = "DELETE"
                  /\ w.body = [kind |-> "json", json |-> call.payload, pairs |-> {}]
                  /\ w.query = {}
            /\ w.headers = sendLog[i].given.headers

C16_Witness ==
    /\ Len(sendLog) = 1
    /\ call.verb = "delete"
    /\ sendLog[1].wire.method = "DELETE"
    /\ sendLog[1].wire.body.json = "{\"uris\":[]}"

C16_WitnessGet ==
    /\ Len(sendLog) = 1
    /\ call.verb = "get"
    /\ sendLog[1].wire.query = {<<"limit", "20">>, <<"offset", "20">>}

\* ------------------------------------------------ two streams: properties
\* Number of items the first k outcomes of `resp` delivered.
RECURSIVE ItemCount(_, _)
ItemCount(resp, k) ==
    IF k = 0 THEN 0 ELSE ItemCount(resp, k - 1) + Len(resp[k].items)

\* Everything a stream pulled alone emits for the outcomes `resp`: the items
\* of its pages in fetch order, then the error if the last outcome failed.
RECURSIVE Emission(_, _)
Emission(resp, k) ==
    IF k = 0 THEN <<>>
    ELSE Emission(resp, k - 1)
         \o (IF resp[k].ok THEN OkSeq(resp[k].items)
             ELSE <<YieldErr(resp[k].err)>>)

IsPrefix(a, b) == Len(a) <= Len(b) /\ a = SubSeq(b, 1, Len(a))

\* What a stream pulled alone does with the outcomes `resp`: it fetches first
\* at offset 0 and then at the count of items of its own pages, and it has
\* emitted a prefix of its own emission that holds every page but the last.
AsPulledAlone(log, resp, em) ==
    /\ Len(resp) <= Len(log)
    /\ Len(log) <= Len(resp) + 1
    /\ \A k \in 1..Len(log) :
          log[k] = FetchRequest(page_size, ItemCount(resp, k - 1))
    /\ IsPrefix(em, Emission(resp, Len(resp)))
    /\ resp # <<>> => Len(em) >= ItemCount(resp, Len(resp) - 1)

\* C11: two streams made by paginate from the same req and pulled in any
\* interleaving share no state: each starts at offset 0, and the offsets
\* each fetches and the elements each emits are those it has when pulled
\* alone, whatever the other has done.
C11_StreamsIndependent ==
    /\ AsPulledAlone(fetchLog, responses, emitted)
    /\ AsPulledAlone(second.fetchLog, second.responses, second.emitted)
    /\ fetchLog # <<>> => fetchLog[1].offset = 0
    /\ second.fetchLog # <<>> => second.fetchLog[1].offset = 0

C11_Witness ==
    /\ Len(fetchLog) = 2
    /\ fetchLog[2].offset = 2
    /\ Len(emitted) = 2
    /\ second.pc = "yield"
    /\ Len(second.fetchLog) = 1
    /\ second.fetchLog[1].offset = 0
    /\ second.emitted = <<YieldOk(1)>>

\* -------------------------------------- pagination: properties (continued)
\* C13: an empty first page without next marker gives the empty sequence:
\* one fetch, at offset 0, no item and no error emitted, and the first pull
\* reports the end of the sequence.
C13_EmptyFirstPage ==
    (responses # <<>> /\ responses[1] = OkPage(<<>>, FALSE)) =>
        /\ Exhausted
        /\ ~pulling
        /\ emitted = <<>>
        /\ responses = <<OkPage(<<>>, FALSE)>>
        /\ fetchLog = <<FetchRequest(page_size, 0)>>
        /\ inflight = {}

C13_Witness ==
    /\ responses = <<OkPage(<<>>, FALSE)>>
    /\ Exhausted
    /\ total = 2
    /\ emitted = <<>>

\* C15: a stream has at most one fetch in flight: a fetch is issued only
\* when every earlier fetch of the stream has resolved, also when the
\* consumer polls again while a fetch is pending.
C15_OneFetchInFlight ==
    /\ Cardinality(inflight) <= 1
    /\ inflight \subseteq {Len(fetchLog)}
    /\ Len(responses) <= Len(fetchLog)
    /\ Len(fetchLog) <= Len(responses) + 1
    /\ inflight # {} => (pc = "await" /\ Len(fetchLog) = Len(responses) + 1)

C15_Witness ==
    /\ pc = "await"
    /\ pulling
    /\ inflight = {3}
    /\ Len(responses) = 2

\* C17: when the source ends up answering a failure or a page without next
\* marker and every fetch completes, a consumer that keeps pulling reaches
\* the end of the sequence; a fetch is issued only while every page received
\* so far had its next marker.
C17_Terminates ==
    /\ <>Exhausted
    /\ [](\A k \in 2..Len(fetchLog) :
             \A j \in 1..(k - 1) : responses[j].ok /\ responses[j].next)
    /\ [](Exhausted =>
             \/ ~responses[Len(responses)].ok
             \/ ~responses[Len(responses)].next)

C17_Witness ==
    /\ Exhausted
    /\ Len(fetchLog) = 4
    /\ responses[4].ok
    /\ ~responses[4].next
    /\ Len(emitted) = 3

\* The items among the elements emitted (an error can only be the last one).
EmittedItems ==
    [i \in 1..Cardinality({j \in 1..Len(emitted) : emitted[j].tag = "Ok"}) |->
        emitted[i].val]

\* C18: the items emitted so far are a prefix of the concatenation, in fetch
\* order, of the item lists of the pages received so far: none is emitted
\* twice, skipped or reordered, their number never exceeds the offset, and
\* an item of a later page is emitted only after every item of the pages
\* before it.
C18_EmittedIsPrefix ==
    /\ \A j \in 1..Len(emitted) : emitted[j].tag = "Err" => j = Len(emitted)
    /\ IsPrefix(EmittedItems, PagesConcat(Len(responses)))
    /\ \A i, j \in 1..Len(EmittedItems) :
          EmittedItems[i] = EmittedItems[j] => i = j
    /\ Len(EmittedItems) <= offset
    /\ offset = Len(PagesConcat(Len(responses)))
    /\ Len(EmittedItems) + Len(buf) = offset
    /\ \A k \in 2..Len(responses) :
          Len(EmittedItems) >= Received(k - 1)

C18_Witness ==
    /\ Len(responses) = 2
    /\ responses[1].items = <<1>>
    /\ responses[2].items = <<2, 3>>
    /\ pc = "yield"
    /\ buf = <<3>>
    /\ EmittedItems = <<1, 2>>

====
